---- MODULE Spec2Model ----
(***************************************************************************)
(* A model of the cell state container (src/src/index.ts; the variant in   *)
(* src/unnamed/part_001 names publish "update" and areEqual "isEqual").    *)
(*                                                                         *)
(* A cell owns previousState and currentState and one pusu publication.    *)
(* subscribe validates its arguments, registers a handler on the           *)
(* publication and invokes the subscriber once; publish swaps the state    *)
(* and publishes it; the handler re-derives the selected state and calls   *)
(* the subscriber when the equality comparator answers false.              *)
(*                                                                         *)
(* JavaScript runs a call to completion, callbacks included, so every      *)
(* container call is one operator over the machine record m, and a         *)
(* subscriber that calls back into the cell is a nested use of the same    *)
(* operators.  Each top-level call is one action.                          *)
(***************************************************************************)
EXTENDS Integers, Sequences, FiniteSets, TLC

\* Bounds of the exploration.
MaxPublishes == 2
MaxSubscriptions == 2

VARIABLES
    currentState,     \* let currentState                      (index.ts:81)
    previousState,    \* let previousState                     (index.ts:80)
    subscribers,      \* publication.subscribers of pusu: handler ids, in registration order
    closures,         \* one record per handler created by subscribe: its captured arguments
    calls,            \* calls[h]: the values subscriber h was invoked with, in order
    nPublishes,       \* top-level publish calls made so far
    published,        \* every publish call that has returned, oldest first (kept by SpecSeq)
    initialState,     \* the argument of cell()
    trace,            \* what the last top-level call did, event by event
    thrown,           \* the error the last top-level call ended with, or NoError
    pre,              \* state and invocation counts when the last top-level call began
    other,            \* the cell a second call of cell() made: its state and publication
    enableLogging,    \* the enableLogging option of cell()
    log               \* the entries the last top-level call wrote to the log

vars == <<currentState, previousState, subscribers, closures, calls,
          nPublishes, published, initialState, trace, thrown, pre, other,
          enableLogging, log>>

----------------------------------------------------------------------------
(* Values.  A state is an object {name, address} with an identity (ref);   *)
(* a selected state is a state, a primitive (a string) or an object a      *)
(* selector builds anew on every call.                                     *)

Names == {"a", "b"}
Addresses == {"x", "y"}

NoVal == [kind |-> "none", ref |-> 0, name |-> "-", address |-> "-"]

StateObj(r, n, ad) == [kind |-> "state", ref |-> r, name |-> n, address |-> ad]

\* A comparison by content where the code compares by identity.
StrictEqualsDeep(a, b) == a.name = b.name /\ a.address = b.address

\* a === b of JavaScript: primitives by value, objects by reference; two
\* objects built by two selector calls are never the same object.
StrictEquals(a, b) ==
    CASE a.kind = "prim" /\ b.kind = "prim" -> a.name = b.name
      [] a.kind = "state" /\ b.kind = "state" -> a.ref = b.ref
      [] OTHER -> FALSE

\* Argument values a caller may pass where a function is expected.
NoError == "none"
Undefined == "undefined"
TruthyNonCallables == {"true", "123", "string", "symbol", "array"}
FalsyNonCallables == {"false", "0", "emptyString", "null"}
NonCallables == TruthyNonCallables \cup FalsyNonCallables

\* Subscriber functions, by what the callback does when invoked.
Subscribers == {"record", "publishOnA", "subscribeOnB", "unsubscribeOthers",
                "throwOnB"}
\* Selector functions.
Selectors == {"selName", "selObject", "selThrowOnB"}
\* Equality comparators.
Comparators == {"eqByName", "eqCurrIsA", "eqThrowOnB"}
\* Reducers.
Reducers == {"same", "setNameA", "setNameB", "setAddressY", "throwing"}

Functions == Subscribers \cup Selectors \cup Comparators \cup Reducers

\* typeof v === "function"
IsFunction(v) == v \in Functions

\* the truthiness of v in `v && ...` and `v ? ... : ...`
Truthy(v) == v \in Functions \/ v \in TruthyNonCallables

----------------------------------------------------------------------------
(* The machine record threaded through a call, and the event log.          *)

Event(ev, call, parent, sub, a, b, flag, fn, sel, eq) ==
    [ev |-> ev, call |-> call, parent |-> parent, sub |-> sub, a |-> a, b |-> b,
     flag |-> flag, fn |-> fn, sel |-> sel, eq |-> eq]

Emit(m, e) == [m EXCEPT !.trace = Append(@, e)]

\* throw new Error(msg): the call in progress is abandoned, nothing catches.
Throw(m, msg) == [m EXCEPT !.thrown = msg]

\* A selector that throws for a state named "b" and projects name otherwise:
\* (state) => { if (state.name === "b") throw ...; return state.name; }
SelectorThrows(selector, s) == selector = "selThrowOnB" /\ s.name = "b"

\* A comparator that throws for a current value named "b" and compares
\* names otherwise.
ComparatorThrows(areEqual, curr, prev) == areEqual = "eqThrowOnB" /\ curr.name = "b"

\* (state) => state.name  and  (state) => ({ name: state.name })
ApplySelector(selector, s) ==
    CASE selector \in {"selName", "selThrowOnB"} ->
           [kind |-> "prim", ref |-> 0, name |-> s.name, address |-> "-"]
      [] selector = "selObject" ->
           [kind |-> "fresh", ref |-> 0, name |-> s.name, address |-> "-"]

\* selector ? selector(x) : x
Select(selector, s) ==
    IF Truthy(selector) THEN ApplySelector(selector, s) ELSE s

\* (curr, prev) => curr.name === prev.name  and  (curr, prev) => curr.name === "a"
ApplyComparator(areEqual, curr, prev) ==
    CASE areEqual \in {"eqByName", "eqThrowOnB"} -> curr.name = prev.name
      [] areEqual = "eqCurrIsA" -> curr.name = "a"

\* The default comparator used whatever areEqual is.
fnIsEqualIgnored(areEqual, x, y) == StrictEquals(x, y)

\* A default comparator that compares objects by their content.
fnIsEqualDeep(areEqual, x, y) ==
    IF Truthy(areEqual) THEN ApplyComparator(areEqual, x, y) ELSE StrictEqualsDeep(x, y)

\* const fnIsEqual = areEqual ? areEqual : (a, b) => a === b;  fnIsEqual(x, y)
fnIsEqual(areEqual, x, y) ==
    IF Truthy(areEqual) THEN ApplyComparator(areEqual, x, y) ELSE StrictEquals(x, y)

\* A reducer applied to state s; r is the identity of the object it builds.
ApplyReducer(reducer, s, r) ==
    CASE reducer = "same" -> s
      [] reducer = "setNameA" -> StateObj(r, "a", s.address)
      [] reducer = "setNameB" -> StateObj(r, "b", s.address)
      [] reducer = "setAddressY" -> StateObj(r, s.name, "y")

RECURSIVE publish(_, _, _)
RECURSIVE subscribe(_, _, _, _, _)
RECURSIVE pusuPublish(_, _, _, _)
RECURSIVE pusuPublishLifo(_, _, _, _)
RECURSIVE unsubscribeEach(_, _, _)
RECURSIVE subscriberCall(_, _, _, _, _)

----------------------------------------------------------------------------
(* pusu, the publish/subscribe primitive the cell is built on.             *)

\* pusu.subscribe(publication, handler): the handler joins the publication.
pusuSubscribe(m, h) == [m EXCEPT !.subscribers = Append(@, h)]

\* A removal by position, splice(indexOf(h), 1): an absent handler has
\* position -1, and the last handler is removed in its place.
pusuUnsubscribeSplice(m, h) ==
    IF \E i \in 1..Len(m.subscribers) : m.subscribers[i] = h
    THEN [m EXCEPT !.subscribers = SelectSeq(@, LAMBDA x : x # h)]
    ELSE [m EXCEPT !.subscribers = SubSeq(@, 1, Len(@) - 1)]

\* The function pusu.subscribe returns: the handler leaves the publication;
\* a repeated call finds nothing to remove.
pusuUnsubscribe(m, h) ==
    [m EXCEPT !.subscribers = SelectSeq(@, LAMBDA x : x # h)]

\* A returned function that removes nothing.
unsubscribeNothing(m, h, parent) ==
    Emit([m EXCEPT !.nCalls = m.nCalls + 1],
         Event("unsubscribe", m.nCalls + 1, parent, h, NoVal, NoVal, TRUE, "-", "-", "-"))

\* A registration of the subscriber function itself, removed by that
\* function: every registration of the function of h goes with it.
unsubscribeByFunction(m, h, parent) ==
    LET id == m.nCalls + 1
        m0 == Emit([m EXCEPT !.nCalls = id],
                   Event("unsubscribe", id, parent, h, NoVal, NoVal, TRUE, "-", "-", "-"))
    IN  [m0 EXCEPT !.subscribers =
           SelectSeq(@, LAMBDA x : m.closures[x].subscriber # m.closures[h].subscriber)]

\* unsubscribe(): a call of the function subscribe returned for handler h.
unsubscribe(m, h, parent) ==
    LET id == m.nCalls + 1
        m0 == Emit([m EXCEPT !.nCalls = id],
                   Event("unsubscribe", id, parent, h, NoVal, NoVal, TRUE, "-", "-", "-"))
    IN  pusuUnsubscribe(m0, h)

unsubscribeEach(m, hs, parent) ==
    IF hs = <<>> \/ m.thrown # NoError THEN m
    ELSE unsubscribeEach(unsubscribe(m, Head(hs), parent), Tail(hs), parent)

\* The handles a callback of handler h holds for the other subscriptions.
OtherHandles(m, h) ==
    SelectSeq([k \in 1..Len(m.closures) |-> k],
              LAMBDA k : k # h /\ m.closures[k].handle)

\* subscriber(value): the call is recorded, then the callback's body runs.
subscriberCall(m, h, value, call, why) ==
    LET m1 == Emit([m EXCEPT !.calls[h] = Append(@, value)],
                   Event(why, call, 0, h, value, NoVal, TRUE, "-", "-", "-"))
        f == m.closures[h].subscriber
    IN  CASE f = "record" -> m1
          [] f = "publishOnA" ->
               IF value.name = "a" THEN publish(m1, "setNameB", call) ELSE m1
          [] f = "subscribeOnB" ->
               IF value.name # "b" \/ m1.closures[h].spent THEN m1
               ELSE subscribe([m1 EXCEPT !.closures[h].spent = TRUE],
                              "record", Undefined, Undefined, call)
          [] f = "unsubscribeOthers" -> unsubscribeEach(m1, OtherHandles(m1, h), call)
          [] f = "throwOnB" ->
               IF value.name = "b" THEN Throw(m1, "subscriber threw") ELSE m1

\* The handler with the comparator's arguments exchanged.
handlerSwapped(m, h, state, call) ==
    LET selector == m.closures[h].selector
        areEqual == m.closures[h].areEqual
        prevSelectedState == Select(selector, m.previousState)
        currSelectedState == Select(selector, state)
        equal == fnIsEqual(areEqual, prevSelectedState, currSelectedState)
        m1 == Emit(m, Event("compare", call, 0, h, prevSelectedState,
                            currSelectedState, equal, "-", selector, areEqual))
    IN  IF ~equal THEN subscriberCall(m1, h, currSelectedState, call, "notify") ELSE m1

\* The "notify" entry of the log, written when logging is enabled as the
\* subscriber is called with the state.
logNotify(m, h, call, curr, prev) ==
    IF m.enableLogging
    THEN [m EXCEPT !.log = Append(@, [action |-> "notify", call |-> call, sub |-> h,
                                      current |-> curr, previous |-> prev])]
    ELSE m

\* A handler that lets no error of the callbacks out.
handlerCatching(m, h, state, call) ==
    LET selector == m.closures[h].selector
        areEqual == m.closures[h].areEqual
    IN  IF SelectorThrows(selector, m.previousState) \/ SelectorThrows(selector, state)
        THEN m
        ELSE LET prevSelectedState == Select(selector, m.previousState)
                 currSelectedState == Select(selector, state)
             IN  IF ComparatorThrows(areEqual, currSelectedState, prevSelectedState)
                 THEN m
                 ELSE LET equal == fnIsEqual(areEqual, currSelectedState, prevSelectedState)
                          m1 == Emit(m, Event("compare", call, 0, h, currSelectedState,
                                              prevSelectedState, equal, "-", selector,
                                              areEqual))
                          m2 == subscriberCall(
                                  logNotify(m1, h, call, currSelectedState,
                                            prevSelectedState),
                                  h, currSelectedState, call, "notify")
                      IN  IF ~equal THEN [m2 EXCEPT !.thrown = m.thrown] ELSE m1

\* A handler that writes the "notify" entry whatever the comparator answered.
handlerLogsAll(m, h, state, call) ==
    LET selector == m.closures[h].selector
        areEqual == m.closures[h].areEqual
    IN  IF SelectorThrows(selector, m.previousState) \/ SelectorThrows(selector, state)
        THEN Throw(m, "selector threw")
        ELSE LET prevSelectedState == Select(selector, m.previousState)
                 currSelectedState == Select(selector, state)
             IN  IF ComparatorThrows(areEqual, currSelectedState, prevSelectedState)
                 THEN Throw(m, "areEqual threw")
                 ELSE LET equal == fnIsEqual(areEqual, currSelectedState, prevSelectedState)
                          m1 == logNotify(
                                  Emit(m, Event("compare", call, 0, h, currSelectedState,
                                                prevSelectedState, equal, "-", selector,
                                                areEqual)),
                                  h, call, currSelectedState, prevSelectedState)
                      IN  IF ~equal
                          THEN subscriberCall(m1, h, currSelectedState, call, "notify")
                          ELSE m1

\* The handler subscribe registers: (state) => { ... }.  An error thrown by
\* selector, areEqual or subscriber ends the handler where it is thrown.
handler(m, h, state, call) ==
    LET selector == m.closures[h].selector
        areEqual == m.closures[h].areEqual
    IN  IF SelectorThrows(selector, m.previousState) \/ SelectorThrows(selector, state)
        THEN Throw(m, "selector threw")
        ELSE LET prevSelectedState == Select(selector, m.previousState)
                 currSelectedState == Select(selector, state)
             IN  IF ComparatorThrows(areEqual, currSelectedState, prevSelectedState)
                 THEN Throw(m, "areEqual threw")
                 ELSE LET equal == fnIsEqual(areEqual, currSelectedState, prevSelectedState)
                          m1 == Emit(m, Event("compare", call, 0, h, currSelectedState,
                                              prevSelectedState, equal, "-", selector,
                                              areEqual))
                      IN  IF ~equal
                          THEN subscriberCall(
                                 logNotify(m1, h, call, currSelectedState,
                                           prevSelectedState),
                                 h, currSelectedState, call, "notify")
                          ELSE m1

\* A delivery that starts with the handler registered last.
pusuPublishLifo(m, queue, state, call) ==
    IF queue = <<>> \/ m.thrown # NoError THEN m
    ELSE LET h == queue[Len(queue)]
             gone == \A i \in 1..Len(m.subscribers) : m.subscribers[i] # h
             m1 == IF m.pusuLive /\ gone THEN m ELSE handler(m, h, state, call)
         IN  pusuPublishLifo(m1, SubSeq(queue, 1, Len(queue) - 1), state, call)

\* pusu.publish(publication, state): every handler registered when the
\* publish began is called in registration order; a handler removed since
\* is still called by a build that iterates the list it started with
\* (pusuLive = FALSE) and skipped by one that looks at the live list.
pusuPublish(m, queue, state, call) ==
    IF queue = <<>> \/ m.thrown # NoError THEN m
    ELSE LET h == Head(queue)
             gone == \A i \in 1..Len(m.subscribers) : m.subscribers[i] # h
             m1 == IF m.pusuLive /\ gone THEN m ELSE handler(m, h, state, call)
         IN  pusuPublish(m1, Tail(queue), state, call)

----------------------------------------------------------------------------
(* The cell.                                                               *)

\* The checks made in another order: the selector first.
validateSelectorFirst(subscriber, selector, areEqual) ==
    IF Truthy(selector) /\ ~IsFunction(selector) THEN "selector must be a function."
    ELSE IF ~IsFunction(subscriber) THEN "subscriber must be a function."
    ELSE IF Truthy(areEqual) /\ ~IsFunction(areEqual) THEN "areEqual must be a function."
    ELSE NoError

\* The three checks subscribe makes before any side effect.
validate(subscriber, selector, areEqual) ==
    IF ~IsFunction(subscriber) THEN "subscriber must be a function."
    ELSE IF Truthy(selector) /\ ~IsFunction(selector) THEN "selector must be a function."
    ELSE IF Truthy(areEqual) /\ ~IsFunction(areEqual) THEN "areEqual must be a function."
    ELSE NoError

\* The closure subscribe creates: the handler's captured arguments; born is
\* the number of publish calls that had returned when it was created.
Closure(subscriber, selector, areEqual, born) ==
    [subscriber |-> subscriber, selector |-> selector, areEqual |-> areEqual,
     handle |-> FALSE, spent |-> FALSE, born |-> born]

\* The frame of a container call ends: normally or by the pending throw.
Return(m, id, parent) ==
    Emit(m, Event("return", id, parent, 0, m.currentState, m.previousState,
                  m.thrown = NoError, "-", "-", "-"))

\* The first invocation passing the state before the last publish.
immediatePrevious(m, h, selector, id) ==
    subscriberCall(m, h, Select(selector, m.previousState), id, "immediate")

\* subscriber(selector ? selector(currentState) : currentState)
immediate(m, h, selector, id) ==
    IF SelectorThrows(selector, m.currentState) THEN Throw(m, "selector threw")
    ELSE subscriberCall(m, h, Select(selector, m.currentState), id, "immediate")

\* The handler registered before the arguments are checked.
subscribeEager(m, subscriber, selector, areEqual, parent) ==
    LET id == m.nCalls + 1
        m0 == Emit([m EXCEPT !.nCalls = id],
                   Event("subscribe", id, parent, 0, m.currentState, m.previousState,
                         TRUE, subscriber, selector, areEqual))
        h == Len(m0.closures) + 1
        m1 == pusuSubscribe(
                [m0 EXCEPT !.closures = Append(@, Closure(subscriber, selector, areEqual,
                                                     Len(m0.published))),
                           !.calls = Append(@, <<>>)], h)
        error == validate(subscriber, selector, areEqual)
    IN  IF error # NoError THEN Return(Throw(m1, error), id, parent)
        ELSE LET m2 == immediate(m1, h, selector, id)
                 m3 == IF m2.thrown = NoError
                       THEN [m2 EXCEPT !.closures[h].handle = TRUE] ELSE m2
             IN  Return(m3, id, parent)

\* A subscribe that brings previousState up to currentState as it begins.
subscribeResetting(m, subscriber, selector, areEqual, parent) ==
    LET id == m.nCalls + 1
        m0 == Emit([m EXCEPT !.nCalls = id],
                   Event("subscribe", id, parent, 0, m.currentState, m.previousState,
                         TRUE, subscriber, selector, areEqual))
        error == validate(subscriber, selector, areEqual)
    IN  IF error # NoError THEN Return(Throw(m0, error), id, parent)
        ELSE LET h == Len(m0.closures) + 1
                 m1 == pusuSubscribe(
                         [m0 EXCEPT !.closures = Append(@, Closure(subscriber, selector, areEqual,
                                                              Len(m0.published))),
                                    !.calls = Append(@, <<>>),
                                    !.previousState = m0.currentState], h)
                 m2 == immediate(m1, h, selector, id)
                 m3 == IF m2.thrown = NoError
                       THEN [m2 EXCEPT !.closures[h].handle = TRUE] ELSE m2
             IN  Return(m3, id, parent)

\* The handler registered only after the first invocation has returned.
subscribeInvokeFirst(m, subscriber, selector, areEqual, parent) ==
    LET id == m.nCalls + 1
        m0 == Emit([m EXCEPT !.nCalls = id],
                   Event("subscribe", id, parent, 0, m.currentState, m.previousState,
                         TRUE, subscriber, selector, areEqual))
        error == validate(subscriber, selector, areEqual)
    IN  IF error # NoError THEN Return(Throw(m0, error), id, parent)
        ELSE LET h == Len(m0.closures) + 1
                 m1 == [m0 EXCEPT !.closures = Append(@, Closure(subscriber, selector, areEqual,
                                                            Len(m0.published))),
                                  !.calls = Append(@, <<>>)]
                 m2 == immediate(m1, h, selector, id)
                 m3 == IF m2.thrown = NoError
                       THEN [pusuSubscribe(m2, h) EXCEPT !.closures[h].handle = TRUE]
                       ELSE m2
             IN  Return(m3, id, parent)

subscribe(m, subscriber, selector, areEqual, parent) ==
    LET id == m.nCalls + 1
        m0 == Emit([m EXCEPT !.nCalls = id],
                   Event("subscribe", id, parent, 0, m.currentState, m.previousState,
                         TRUE, subscriber, selector, areEqual))
        error == validate(subscriber, selector, areEqual)
    IN  IF error # NoError THEN Return(Throw(m0, error), id, parent)
        ELSE LET h == Len(m0.closures) + 1
                 m1 == pusuSubscribe(
                         [m0 EXCEPT !.closures = Append(@, Closure(subscriber, selector, areEqual,
                                                              Len(m0.published))),
                                    !.calls = Append(@, <<>>)], h)
                 m2 == immediate(m1, h, selector, id)
                 m3 == IF m2.thrown = NoError
                       THEN [m2 EXCEPT !.closures[h].handle = TRUE] ELSE m2
             IN  Return(m3, id, parent)

\* The assignment left out.
savePreviousSkipped(m) == m

\* previousState = currentState;
savePrevious(m) == [m EXCEPT !.previousState = m.currentState]

\* currentState = reducer(currentState);
reduce(m, reducer, id, parent) ==
    IF ~IsFunction(reducer) THEN Throw(m, "reducer is not a function")
    ELSE IF reducer = "throwing"
    THEN Throw(Emit(m, Event("reducer", id, parent, 0, m.currentState, NoVal, FALSE,
                             reducer, "-", "-")), "reducer threw")
    ELSE LET next == ApplyReducer(reducer, m.currentState, m.nextRef)
         IN  Emit([m EXCEPT !.currentState = next,
                            !.nextRef = IF reducer = "same" THEN @ ELSE @ + 1],
                  Event("reducer", id, parent, 0, m.currentState, next, TRUE,
                        reducer, "-", "-"))

\* A publish made during a broadcast that changes the state and leaves
\* its own broadcast for later.
publishDeferred(m, reducer, parent) ==
    LET id == m.nCalls + 1
        m0 == Emit([m EXCEPT !.nCalls = id],
                   Event("publish", id, parent, 0, m.currentState, m.previousState,
                         TRUE, reducer, "-", "-"))
        m1 == savePrevious(m0)
        m2 == reduce(m1, reducer, id, parent)
        m3 == IF m2.thrown # NoError \/ parent # 0 THEN m2
              ELSE pusuPublish(m2, m2.subscribers, m2.currentState, id)
        m4 == [m3 EXCEPT !.published =
                 Append(@, [fn |-> reducer, nested |-> parent # 0,
                            ok |-> m3.thrown = NoError,
                            fresh |-> m2.currentState.ref # m0.currentState.ref])]
    IN  Return(m4, id, parent)

\* A publish that broadcasts the reducer's result and stores it in
\* currentState only when the broadcast has ended.
publishLateWrite(m, reducer, parent) ==
    LET id == m.nCalls + 1
        m0 == Emit([m EXCEPT !.nCalls = id],
                   Event("publish", id, parent, 0, m.currentState, m.previousState,
                         TRUE, reducer, "-", "-"))
        m1 == savePrevious(m0)
        m2 == reduce(m1, reducer, id, parent)
        next == m2.currentState
        m3 == IF m2.thrown # NoError THEN m2
              ELSE pusuPublish([m2 EXCEPT !.currentState = m1.currentState],
                               m2.subscribers, next, id)
        m4 == IF m3.thrown # NoError THEN m3 ELSE [m3 EXCEPT !.currentState = next]
        m5 == [m4 EXCEPT !.published =
                 Append(@, [fn |-> reducer, nested |-> parent # 0,
                            ok |-> m4.thrown = NoError,
                            fresh |-> next.ref # m0.currentState.ref])]
    IN  Return(m5, id, parent)

\* A publish that hands the state to pusu.publish twice.
publishTwice(m, reducer, parent) ==
    LET id == m.nCalls + 1
        m0 == Emit([m EXCEPT !.nCalls = id],
                   Event("publish", id, parent, 0, m.currentState, m.previousState,
                         TRUE, reducer, "-", "-"))
        m1 == savePrevious(m0)
        m2 == reduce(m1, reducer, id, parent)
        m3 == IF m2.thrown # NoError THEN m2
              ELSE LET once == pusuPublish(m2, m2.subscribers, m2.currentState, id)
                   IN  pusuPublish(once, once.subscribers, m2.currentState, id)
        m4 == [m3 EXCEPT !.published =
                 Append(@, [fn |-> reducer, nested |-> parent # 0,
                            ok |-> m3.thrown = NoError,
                            fresh |-> m2.currentState.ref # m0.currentState.ref])]
    IN  Return(m4, id, parent)

publish(m, reducer, parent) ==
    LET id == m.nCalls + 1
        m0 == Emit([m EXCEPT !.nCalls = id],
                   Event("publish", id, parent, 0, m.currentState, m.previousState,
                         TRUE, reducer, "-", "-"))
        m1 == savePrevious(m0)
        m2 == reduce(m1, reducer, id, parent)
        m3 == IF m2.thrown # NoError THEN m2
              ELSE pusuPublish(m2, m2.subscribers, m2.currentState, id)
        m4 == [m3 EXCEPT !.published =
                 Append(@, [fn |-> reducer, nested |-> parent # 0,
                            ok |-> m3.thrown = NoError,
                            fresh |-> m2.currentState.ref # m0.currentState.ref])]
    IN  Return(m4, id, parent)

----------------------------------------------------------------------------------------------------------------------------------------------
(* The state machine: one action per top-level call.                       *)

\* Object identities are renumbered as a call begins: previousState is
\* object 0, currentState object 0 or 1, an object no longer reachable
\* from the cell is -1, and the call's new objects are 2, 3, ...
Renumber(v) ==
    IF v.kind # "state" THEN v
    ELSE [v EXCEPT !.ref = IF v.ref = previousState.ref THEN 0
                            ELSE IF v.ref = currentState.ref THEN 1 ELSE -1]

\* The machine as a top-level call finds it; live names the pusu build's
\* treatment of a handler removed while a publish is under way.
Machine(live) ==
    [currentState |-> Renumber(currentState),
     previousState |-> Renumber(previousState),
     subscribers |-> subscribers, closures |-> closures,
     calls |-> [h \in 1..Len(calls) |->
                  [i \in 1..Len(calls[h]) |-> Renumber(calls[h][i])]],
     published |-> published, nextRef |-> 2, pusuLive |-> live,
     trace |-> <<>>, thrown |-> NoError, nCalls |-> 0,
     enableLogging |-> enableLogging, log |-> <<>>]

Snapshot(m) ==
    [currentState |-> m.currentState, previousState |-> m.previousState,
     subscribers |-> m.subscribers,
     counts |-> [h \in 1..Len(m.calls) |-> Len(m.calls[h])]]

Commit(m) ==
    /\ currentState' = m.currentState
    /\ previousState' = m.previousState
    /\ subscribers' = m.subscribers
    /\ closures' = m.closures
    /\ calls' = m.calls
    /\ trace' = m.trace
    /\ thrown' = m.thrown
    /\ pre' = Snapshot(Machine(FALSE))
    /\ log' = m.log
    /\ UNCHANGED <<initialState, other, enableLogging>>

\* No second cell: publication 0 is no publication.  handlers are the
\* handlers subscribed through the second cell; last is the cell the last
\* top-level call was made on, and was the state the cell it was not made
\* on held when it began.
NoCell ==
    [publication |-> 0, currentState |-> NoVal, previousState |-> NoVal,
     subscribers |-> <<>>, handlers |-> {}, last |-> 0, was |-> <<NoVal, NoVal>>]

\* cell(initialState, { enableLogging: logging })
InitCell(logging) ==
    /\ enableLogging = logging
    /\ log = <<>>
    /\ initialState \in {StateObj(0, n, "x") : n \in Names}
    /\ currentState = initialState
    /\ previousState = initialState
    /\ subscribers = <<>>
    /\ closures = <<>>
    /\ calls = <<>>
    /\ nPublishes = 0
    /\ published = <<>>
    /\ trace = <<>>
    /\ thrown = NoError
    /\ pre = [currentState |-> initialState, previousState |-> initialState,
              subscribers |-> <<>>, counts |-> <<>>]
    /\ other = NoCell

\* const { publish, subscribe } = cell(initialState)
Init == InitCell(FALSE)

ReducerArgs == Reducers \cup {"123"}

\* publish(reducer)
Publish ==
    /\ nPublishes < MaxPublishes
    /\ \E reducer \in ReducerArgs, live \in BOOLEAN :
          Commit(publish(Machine(live), reducer, 0))
    /\ nPublishes' = nPublishes + 1
    /\ UNCHANGED published

\* The subscriptions explored: a subscriber that only records, with every
\* selector and comparator; the subscribers that call back into the cell
\* or throw, with the default comparator.
SubscribeArgs ==
    {<<"record", sel, eq>> : sel \in Selectors \cup {Undefined},
                             eq \in {Undefined, "eqByName"}}
    \cup {<<"record", "selName", "eqCurrIsA">>,
          <<"publishOnA", Undefined, Undefined>>,
          <<"publishOnA", "selName", Undefined>>,
          <<"subscribeOnB", Undefined, Undefined>>,
          <<"unsubscribeOthers", Undefined, Undefined>>,
          <<"throwOnB", Undefined, Undefined>>}

\* subscribe(subscriber, selector, areEqual)
Subscribe ==
    /\ Len(closures) < MaxSubscriptions
    /\ \E args \in SubscribeArgs, live \in BOOLEAN :
          Commit(subscribe(Machine(live), args[1], args[2], args[3], 0))
    /\ UNCHANGED <<nPublishes, published>>

\* unsubscribe(), for a handle a subscribe call returned
Unsubscribe ==
    /\ \E h \in 1..Len(closures) :
          /\ closures[h].handle
          /\ Commit(unsubscribe(Machine(FALSE), h, 0))
    /\ UNCHANGED <<nPublishes, published>>

Next == Publish \/ Subscribe \/ Unsubscribe

Spec == Init /\ [][Next]_vars

\* The argument values explored for the validation in subscribe: every
\* kind of value in each position, on a cell with no subscription yet and
\* until a call fails.
AnySubscriber == {"record", Undefined} \cup NonCallables
AnySelector == Selectors \cup {Undefined} \cup NonCallables
AnyComparator == Comparators \cup {Undefined} \cup NonCallables

\* subscribe(subscriber, selector, areEqual), with arguments of any kind
SubscribeAny ==
    /\ closures = <<>>
    /\ thrown = NoError
    /\ \E subscriber \in AnySubscriber, selector \in AnySelector,
          areEqual \in AnyComparator :
          Commit(subscribe(Machine(FALSE), subscriber, selector, areEqual, 0))
    /\ UNCHANGED <<nPublishes, published>>

NextArgs == Publish \/ SubscribeAny \/ Unsubscribe

SpecArgs == Init /\ [][NextArgs]_vars

\* Sequences of calls none of which is made from inside a callback, on a
\* cell with at most MaxSeqSubscriptions subscriptions, with the publish
\* calls made so far kept in published.
MaxSeqPublishes == 3
MaxSeqSubscriptions == 1

SeqArgs == {args \in SubscribeArgs : args[1] = "record"}

PublishSeq ==
    /\ nPublishes < MaxSeqPublishes
    /\ \E reducer \in ReducerArgs :
          LET m == publish(Machine(FALSE), reducer, 0)
          IN  Commit(m) /\ published' = m.published
    /\ nPublishes' = nPublishes + 1

SubscribeSeq ==
    /\ Len(closures) < MaxSeqSubscriptions
    /\ \E args \in SeqArgs :
          Commit(subscribe(Machine(FALSE), args[1], args[2], args[3], 0))
    /\ UNCHANGED <<nPublishes, published>>

NextSeq == PublishSeq \/ SubscribeSeq \/ Unsubscribe

SpecSeq == Init /\ [][NextSeq]_vars

\* Subscriptions whose selector, comparator or subscriber throws, beside
\* one that only records.
ThrowArgs ==
    {<<"record", Undefined, Undefined>>, <<"throwOnB", Undefined, Undefined>>,
     <<"record", "selThrowOnB", Undefined>>, <<"record", "selName", "eqThrowOnB">>}

SubscribeThrowing ==
    /\ Len(closures) < MaxSubscriptions
    /\ \E args \in ThrowArgs :
          Commit(subscribe(Machine(FALSE), args[1], args[2], args[3], 0))
    /\ UNCHANGED <<nPublishes, published>>

NextThrow == Publish \/ SubscribeThrowing \/ Unsubscribe

SpecThrow == Init /\ [][NextThrow]_vars

\* A cell created with logging enabled.
InitLogging == InitCell(TRUE)

SpecLogging == InitLogging /\ [][Next]_vars

----------------------------------------------------------------------------
(* Two cells.  Every cell() call creates a publication of the same name    *)
(* and its own previousState and currentState; the subscribers explored    *)
(* call back into the cell they were subscribed to.                        *)

MaxCellPublishes == 2
MaxCellSubscriptions == 2

\* A publication looked up by its name: a second one of a name is the first.
createPublicationByName(pubs, name) ==
    IF \E i \in DOMAIN pubs : pubs[i] = name
    THEN CHOOSE i \in DOMAIN pubs : pubs[i] = name
    ELSE Len(pubs) + 1

\* pusu.createPublication({ name }): a new publication, with no subscriber,
\* whatever publications exist; pubs are the names of those created so far.
createPublication(pubs, name) == Len(pubs) + 1

\* const publication = pusu.createPublication({ name: "cell" }), in the
\* first and in the second call of cell()
FirstPublication == createPublication(<<>>, "cell")
SecondPublication == createPublication(<<"cell">>, "cell")

Cells == IF other.publication = 0 THEN {1} ELSE {1, 2}

\* The cell handler h was subscribed to.
Owner(h) == IF h \in other.handlers THEN 2 ELSE 1

\* The variables of cell c and the handlers of its publication.
CellState(c) ==
    IF c = 1
    THEN [currentState |-> currentState, previousState |-> previousState,
          subscribers |-> subscribers]
    ELSE [currentState |-> other.currentState, previousState |-> other.previousState,
          subscribers |-> IF other.publication = FirstPublication
                          THEN subscribers ELSE other.subscribers]

RenumberIn(v, prev, curr) ==
    IF v.kind # "state" THEN v
    ELSE [v EXCEPT !.ref = IF v.ref = prev.ref THEN 0
                            ELSE IF v.ref = curr.ref THEN 1 ELSE -1]

\* The machine as a top-level call on cell c finds it.
MachineOf(c) ==
    LET st == CellState(c)
    IN  [Machine(FALSE) EXCEPT
           !.currentState = RenumberIn(st.currentState, st.previousState, st.currentState),
           !.previousState = RenumberIn(st.previousState, st.previousState, st.currentState),
           !.subscribers = st.subscribers,
           !.calls = [h \in 1..Len(calls) |->
                        IF Owner(h) # c THEN calls[h]
                        ELSE [i \in 1..Len(calls[h]) |->
                                RenumberIn(calls[h][i], st.previousState, st.currentState)]]]

CommitCell(c, m) ==
    /\ IF c = 1
       THEN /\ currentState' = m.currentState
            /\ previousState' = m.previousState
            /\ subscribers' = m.subscribers
            /\ other' = [other EXCEPT !.last = 1,
                                      !.was = <<other.currentState, other.previousState>>]
       ELSE /\ UNCHANGED <<currentState, previousState>>
            /\ subscribers' = IF other.publication = FirstPublication
                              THEN m.subscribers ELSE subscribers
            /\ other' = [other EXCEPT
                           !.currentState = m.currentState,
                           !.previousState = m.previousState,
                           !.subscribers = IF other.publication = FirstPublication
                                           THEN @ ELSE m.subscribers,
                           !.handlers = @ \cup ((Len(closures) + 1)..Len(m.closures)),
                           !.last = 2,
                           !.was = <<currentState, previousState>>]
    /\ closures' = m.closures
    /\ calls' = m.calls
    /\ trace' = m.trace
    /\ thrown' = m.thrown
    /\ pre' = Snapshot(MachineOf(c))
    /\ log' = m.log
    /\ UNCHANGED <<initialState, enableLogging>>

\* cell(initialState), a second time
CreateCell ==
    /\ other.publication = 0
    /\ \E s \in {StateObj(0, n, "x") : n \in Names} :
          other' = [NoCell EXCEPT !.publication = SecondPublication,
                                  !.currentState = s, !.previousState = s]
    /\ UNCHANGED <<currentState, previousState, subscribers, closures, calls,
                   nPublishes, published, initialState, trace, thrown, pre,
                   enableLogging, log>>

CellReducers == {"setNameA", "setNameB"}

CellArgs ==
    {<<"record", Undefined, Undefined>>, <<"record", "selName", Undefined>>,
     <<"publishOnA", Undefined, Undefined>>}

\* publish(reducer), of either cell
PublishCell ==
    /\ nPublishes < MaxCellPublishes
    /\ \E c \in Cells, reducer \in CellReducers :
          CommitCell(c, publish(MachineOf(c), reducer, 0))
    /\ nPublishes' = nPublishes + 1
    /\ UNCHANGED published

\* subscribe(subscriber, selector, areEqual), of either cell
SubscribeCell ==
    /\ Len(closures) < MaxCellSubscriptions
    /\ \E c \in Cells, args \in CellArgs :
          CommitCell(c, subscribe(MachineOf(c), args[1], args[2], args[3], 0))
    /\ UNCHANGED <<nPublishes, published>>

\* unsubscribe(), for a handle a subscribe call of either cell returned
UnsubscribeCell ==
    /\ \E h \in 1..Len(closures) :
          /\ closures[h].handle
          /\ CommitCell(Owner(h), unsubscribe(MachineOf(Owner(h)), h, 0))
    /\ UNCHANGED <<nPublishes, published>>

NextCells == CreateCell \/ PublishCell \/ SubscribeCell \/ UnsubscribeCell

SpecCells == Init /\ [][NextCells]_vars

----------------------------------------------------------------------------
(* Reading the event log of the last top-level call.                       *)

\* The last top-level call was a call of op.
IsTop(op) == trace # <<>> /\ trace[1].ev = op

ContainerCalls ==
    {i \in DOMAIN trace : trace[i].ev \in {"publish", "subscribe", "unsubscribe"}}

\* The last top-level call made no container call from inside a callback.
Flat == Cardinality(ContainerCalls) = 1

\* The last top-level call was a publish whose reducer returned a state.
Reduced == IsTop("publish") /\ Len(trace) >= 2 /\ trace[2].ev = "reducer" /\ trace[2].flag

Compares == SelectSeq(trace, LAMBDA e : e.ev = "compare")

Last(q) == q[Len(q)]

Prim(n) == [kind |-> "prim", ref |-> 0, name |-> n, address |-> "-"]

----------------------------------------------------------------------------
(* C1 *)

----------------------------------------------------------------------------
(* C2 *)

\* The position in the log where call c was entered, and where it returned.
Entry(c) == CHOOSE i \in ContainerCalls : trace[i].call = c
ReturnOf(c) == CHOOSE j \in DOMAIN trace : trace[j].ev = "return" /\ trace[j].call = c

SubscribeCalls == {i \in ContainerCalls : trace[i].ev = "subscribe"}

Range(q) == {q[i] : i \in DOMAIN q}

\* C2: every subscribe call that returns normally, at top level or from
\* inside a callback, has itself invoked its subscriber exactly once, as
\* its first step after registering and before it returns, with
\* selector(currentState) (currentState when no selector is given) as it
\* was when subscribe was called, and without a call of the comparator.
C2_ImmediateInvocation ==
    \A i \in SubscribeCalls :
        LET e == trace[i]
            r == ReturnOf(e.call)
        IN  trace[r].flag =>
              /\ i + 1 < r
              /\ trace[i + 1].ev = "immediate"
              /\ trace[i + 1].call = e.call
              /\ trace[i + 1].a = Select(e.sel, e.a)
              /\ closures[trace[i + 1].sub].subscriber = e.fn
              /\ calls[trace[i + 1].sub][1] = trace[i + 1].a
              /\ Cardinality({j \in DOMAIN trace : /\ trace[j].ev = "immediate"
                                                   /\ trace[j].call = e.call}) = 1

\* A publish during whose broadcast a callback subscribed, on a cell that
\* also holds a subscription whose comparator would have answered "equal"
\* for its first value.
C2_Witness ==
    /\ IsTop("publish")
    /\ \E i \in SubscribeCalls : trace[i].parent # 0 /\ trace[ReturnOf(trace[i].call)].flag
    /\ \E h \in 1..Len(closures) :
         /\ closures[h].areEqual = "eqCurrIsA"
         /\ calls[h] # <<>> /\ calls[h][1].name = "a"

----------------------------------------------------------------------------
(* C3 *)

Content(v) == <<v.name, v.address>>

\* The publish calls that returned since subscription h was created.
Since(h) == SubSeq(published, closures[h].born + 1, Len(published))

\* Subscription h records its calls, uses no selector and the default
\* comparator, and is still registered.
Plain(h) ==
    /\ closures[h].subscriber = "record"
    /\ closures[h].selector = Undefined
    /\ closures[h].areEqual = Undefined
    /\ h \in Range(subscribers)

\* The calls of h are the state it was subscribed at followed by the
\* result of each publish since, each reducer applied to the value before.
Folded(h) ==
    /\ Len(calls[h]) = Len(Since(h)) + 1
    /\ \A k \in 1..Len(Since(h)) :
         Content(calls[h][k + 1]) = Content(ApplyReducer(Since(h)[k].fn, calls[h][k], 0))
    /\ Last(calls[h]) = currentState

\* C3 as stated: after subscribing with no selector and the default
\* comparator, n publish calls made one after another leave the subscriber
\* with n+1 invocations, the i-th publish's carrying its reducer applied to
\* the value before.
C3_Original ==
    \A h \in 1..Len(closures) :
        (Plain(h) /\ \A k \in 1..Len(Since(h)) : Since(h)[k].ok) => Folded(h)

\* C3 amended: the same, for publish calls whose reducers each return a
\* value that is not identical (===) to the state they were given.
C3_FoldedInvocations ==
    \A h \in 1..Len(closures) :
        (Plain(h) /\ \A k \in 1..Len(Since(h)) : Since(h)[k].ok /\ Since(h)[k].fresh)
            => Folded(h)

\* Three publish calls, each building a new state, after a subscription.
C3_Witness ==
    \E h \in 1..Len(closures) :
        /\ Plain(h)
        /\ Len(Since(h)) = 3
        /\ \A k \in 1..3 : Since(h)[k].ok /\ Since(h)[k].fresh
        /\ Len(calls[h]) = 4

----------------------------------------------------------------------------
(* C4 *)

PublishCalls == {i \in ContainerCalls : trace[i].ev = "publish"}

\* The reducer calls made by publish call c.
ReducerCalls(c) == {j \in DOMAIN trace : trace[j].ev = "reducer" /\ trace[j].call = c}

\* The reducer of publish call c is called once, first, with the state
\* the cell held when the call was made.
ReducedOnce(i) ==
    IsFunction(trace[i].fn) =>
        /\ ReducerCalls(trace[i].call) = {i + 1}
        /\ trace[i + 1].a = trace[i].a

\* At its return, publish call c left the reducer's result in currentState
\* and the state it found in previousState.
Swapped(i) ==
    LET r == ReturnOf(trace[i].call)
    IN  /\ trace[r].a = trace[i + 1].b
        /\ trace[r].b = trace[i].a

\* A top-level call ends with its return, and the cell holds what the
\* return saw.
TopReturn ==
    trace # <<>> =>
        /\ Last(trace).ev = "return" \/ IsTop("unsubscribe")
        /\ Last(trace).ev = "return" =>
             /\ Last(trace).call = 1
             /\ Last(trace).a = currentState
             /\ Last(trace).b = previousState

\* C4 as stated: every publish call calls its reducer exactly once with
\* the current state, and when it returns normally currentState is the
\* reducer's result and previousState the state the call found.
C4_Original ==
    /\ TopReturn
    /\ \A i \in PublishCalls :
         /\ ReducedOnce(i)
         /\ trace[ReturnOf(trace[i].call)].flag => Swapped(i)

\* C4 amended: the same, the second half for the publish calls during
\* whose broadcast no callback called publish.
C4_SwapAndReduce ==
    /\ TopReturn
    /\ \A i \in PublishCalls :
         /\ ReducedOnce(i)
         /\ (/\ trace[ReturnOf(trace[i].call)].flag
             /\ \A j \in PublishCalls : ~(i < j /\ j < ReturnOf(trace[i].call)))
            => Swapped(i)

\* A publish that built a new state and returned normally after its
\* broadcast reached a subscriber, and before it a state change.
C4_Witness ==
    /\ Reduced /\ Flat /\ thrown = NoError
    /\ pre.subscribers # <<>>
    /\ pre.currentState # pre.previousState
    /\ currentState # pre.currentState

----------------------------------------------------------------------------
(* C5 *)

\* C5 as stated: between calls, previousState is the value currentState
\* held just before the most recent completed publish, and both are the
\* initial state until a publish completes.  A publish whose reducer
\* throws completes nothing, nor does a subscribe or an unsubscribe.
C5_PreviousState ==
    /\ (\A k \in 1..Len(published) : ~published[k].ok) =>
           currentState = initialState /\ previousState = initialState
    /\ (Reduced /\ thrown = NoError) => previousState = pre.currentState
    /\ (IsTop("publish") /\ ~Reduced) => previousState = pre.previousState
    /\ (IsTop("subscribe") \/ IsTop("unsubscribe")) => previousState = pre.previousState

----------------------------------------------------------------------------
(* C6 *)

\* C6: a subscriber whose unsubscribe function had been called before a
\* top-level call began is not invoked in it; and inside one top-level
\* call, every invocation of a subscriber after its unsubscribe function
\* was called belongs to the broadcast of a publish that had begun before.
C6_NoInvocationAfterUnsubscribe ==
    /\ \A h \in DOMAIN pre.counts :
         h \notin Range(pre.subscribers) => Len(calls[h]) = pre.counts[h]
    /\ \A i, j \in DOMAIN trace :
         (/\ trace[i].ev = "unsubscribe"
          /\ i < j
          /\ trace[j].ev \in {"notify", "immediate"}
          /\ trace[j].sub = trace[i].sub)
         => Entry(trace[j].call) < i

\* A publish that built a new state with another subscriber notified,
\* after the unsubscribe function of a subscriber that had been notified
\* of every change was called.
C6_Witness ==
    /\ Reduced /\ thrown = NoError
    /\ currentState.ref # pre.currentState.ref
    /\ \E e \in Range(trace) : e.ev = "notify"
    /\ \E h \in DOMAIN pre.counts :
         /\ h \notin Range(pre.subscribers)
         /\ closures[h].handle
         /\ closures[h].selector = Undefined /\ closures[h].areEqual = Undefined
         /\ pre.counts[h] >= 2

----------------------------------------------------------------------------
(* C7 *)

\* C7: a call of an unsubscribe function whose subscription is already
\* removed does not throw and leaves the registered subscriptions,
\* currentState and previousState as they were.
C7_UnsubscribeIdempotent ==
    (IsTop("unsubscribe") /\ trace[1].sub \notin Range(pre.subscribers)) =>
        /\ thrown = NoError
        /\ subscribers = pre.subscribers
        /\ currentState = pre.currentState
        /\ previousState = pre.previousState

\* A second call of an unsubscribe function while another subscription
\* is registered.
C7_Witness ==
    /\ IsTop("unsubscribe")
    /\ trace[1].sub \notin Range(pre.subscribers)
    /\ pre.subscribers # <<>>

----------------------------------------------------------------------------
(* C8, C9, C10 *)

\* C8: subscribe throws "subscriber must be a function." exactly when its
\* first argument is not a function, whatever the other two are.
C8_SubscriberValidation ==
    IsTop("subscribe") =>
        (thrown = "subscriber must be a function." <=> trace[1].fn \notin Subscribers)

\* A subscribe call with an array for subscriber and arguments in the
\* other positions that are not functions either.
C8_Witness ==
    /\ IsTop("subscribe")
    /\ trace[1].fn = "array" /\ trace[1].sel = "123" /\ trace[1].eq = "true"
    /\ thrown = "subscriber must be a function."

\* C9 as stated: with a function for subscriber, subscribe throws
\* "selector must be a function." for every selector argument that is
\* given and is not a function.
C9_SelectorValidation ==
    (IsTop("subscribe") /\ trace[1].fn \in Subscribers /\ trace[1].sel \in NonCallables)
        => thrown = "selector must be a function."

\* C10 as stated: with a function for subscriber and a valid selector,
\* subscribe throws "areEqual must be a function." for every areEqual
\* argument that is given and is not a function.
C10_ComparatorValidation ==
    (/\ IsTop("subscribe")
     /\ trace[1].fn \in Subscribers
     /\ trace[1].sel \in Selectors \cup {Undefined}
     /\ trace[1].eq \in NonCallables)
        => thrown = "areEqual must be a function."

----------------------------------------------------------------------------
(* C11 *)

ValidationErrors ==
    {"subscriber must be a function.", "selector must be a function.",
     "areEqual must be a function."}

\* C11: a subscribe call that fails one of its three checks registers no
\* handler, creates no subscription, invokes nobody and leaves currentState
\* and previousState as they were; and every handler a later publish can
\* reach belongs to a subscribe call whose arguments passed the checks.
C11_FailedSubscribeHasNoEffect ==
    /\ (IsTop("subscribe") /\ thrown \in ValidationErrors) =>
          /\ subscribers = pre.subscribers
          /\ Len(closures) = Len(pre.counts)
          /\ \A h \in DOMAIN pre.counts : Len(calls[h]) = pre.counts[h]
          /\ currentState = pre.currentState
          /\ previousState = pre.previousState
          /\ \A i \in DOMAIN trace : trace[i].ev \in {"subscribe", "return"}
    /\ Len(calls) = Len(closures)
    /\ Range(subscribers) \subseteq DOMAIN closures
    /\ \A h \in DOMAIN closures :
          validate(closures[h].subscriber, closures[h].selector,
                   closures[h].areEqual) = NoError

\* A subscribe call rejected by the third check, on a cell whose state a
\* publish had changed.
C11_Witness ==
    /\ IsTop("subscribe")
    /\ thrown = "areEqual must be a function."
    /\ trace[1].fn \in Subscribers /\ trace[1].sel \in Selectors
    /\ pre.currentState # pre.previousState

----------------------------------------------------------------------------
(* C12 *)

\* The steps of the dispatch to one subscription: its handler's comparison
\* and the invocation of its subscriber.
Dispatches == {i \in DOMAIN trace : trace[i].ev \in {"compare", "notify"}}

\* C12: within the broadcast of one publish call, at top level or nested,
\* the handlers run and the subscribers are invoked in the order in which
\* their subscribe calls were made.
C12_FifoFanOut ==
    \A i, j \in Dispatches :
        (trace[i].call = trace[j].call /\ trace[i].sub < trace[j].sub) => i < j

\* A nested publish whose broadcast invoked two subscribers.
C12_Witness ==
    \E i, j \in Dispatches :
        /\ trace[i].ev = "notify" /\ trace[j].ev = "notify"
        /\ trace[i].call = trace[j].call
        /\ trace[i].sub # trace[j].sub
        /\ trace[Entry(trace[i].call)].parent # 0

----------------------------------------------------------------------------
(* C13 *)

\* The subscriptions registered when the log had reached position i.
ActiveAt(i) ==
    (Range(pre.subscribers)
       \cup {trace[k].sub : k \in {k \in 1..(i - 1) : trace[k].ev = "immediate"}})
    \ {trace[k].sub : k \in {k \in 1..(i - 1) : trace[k].ev = "unsubscribe"}}

\* The publish calls made from inside a subscriber.
NestedPublishes == {i \in PublishCalls : trace[i].parent # 0}

\* C13: a publish a subscriber makes during a broadcast is a frame on the
\* call stack.  It lies inside the call that invoked the subscriber; from
\* its entry to its return the log holds its own steps and those of calls
\* made inside it, none of an enclosing broadcast; its reducer runs first;
\* and when it returns normally it has dispatched to every subscription
\* that was registered at its entry and still is at its return.
C13_NestedRunsToCompletion ==
    \A i \in NestedPublishes :
        LET c == trace[i].call
            r == ReturnOf(c)
            p == trace[i].parent
        IN  /\ Entry(p) < i /\ i < r /\ r < ReturnOf(p)
            /\ \A k \in DOMAIN trace : trace[k].call = c => (i <= k /\ k <= r)
            /\ \A k \in i..r : trace[k].call >= c
            /\ trace[i + 1].ev = "reducer" /\ trace[i + 1].call = c
            /\ trace[r].flag =>
                 \A h \in ActiveAt(i) \cap ActiveAt(r) :
                     \E k \in i..r : /\ trace[k].ev = "compare"
                                      /\ trace[k].call = c
                                      /\ trace[k].sub = h

\* A nested publish that dispatched to two subscriptions and returned, with
\* the enclosing broadcast dispatching to a remaining subscription after it.
C13_Witness ==
    \E i \in NestedPublishes :
        /\ trace[ReturnOf(trace[i].call)].flag
        /\ Cardinality(ActiveAt(i)) = 2
        /\ trace[Entry(trace[i].parent)].ev = "publish"
        /\ \E k \in DOMAIN trace :
             /\ k > ReturnOf(trace[i].call)
             /\ trace[k].ev = "compare"
             /\ trace[k].call = trace[i].parent

----------------------------------------------------------------------------
(* C14 *)

\* The reducer calls that returned a state.
Reductions == {k \in DOMAIN trace : trace[k].ev = "reducer" /\ trace[k].flag}

MaxOf(S) == CHOOSE x \in S : \A y \in S : y <= x

\* What the reducers have made of the state when the log reaches position
\* k: the result of the last reducer call before k, or the state the
\* top-level call began with.
StateAt(k) ==
    LET before == {j \in Reductions : j < k}
    IN  IF before = {} THEN pre.currentState ELSE trace[MaxOf(before)].b

\* C14: currentState is written by the reducer assignment alone.  Every
\* reducer, of a nested publish too, receives the result of the reducer
\* call before it; every publish returns with currentState holding the
\* result of the last reducer call; so a publish made by a subscriber
\* during the broadcast of U1 receives U1's result, and U1 returns with
\* the nested result in currentState.
C14_NestedSeesOuterResult ==
    /\ \A k \in DOMAIN trace :
          /\ trace[k].ev = "reducer" => trace[k].a = StateAt(k)
          /\ trace[k].ev = "return" => trace[k].a = StateAt(k)
    /\ trace # <<>> => currentState = StateAt(Len(trace) + 1)
    /\ \A i \in NestedPublishes :
          LET e == Entry(trace[i].parent)
          IN  (/\ trace[e].ev = "publish"
               /\ {j \in Reductions : e < j /\ j < ReturnOf(trace[i].parent)} = {e + 1, i + 1})
              => /\ trace[i + 1].a = trace[e + 1].b
                 /\ trace[ReturnOf(trace[i].parent)].a = trace[i + 1].b

\* A top-level publish that returned normally, during whose broadcast a
\* subscriber published: the cell holds the nested result, which is not
\* the outer reducer's.
C14_Witness ==
    /\ Reduced /\ thrown = NoError
    /\ \E i \in NestedPublishes :
         /\ trace[i].parent = 1
         /\ trace[i + 1].ev = "reducer" /\ trace[i + 1].flag
         /\ currentState = trace[i + 1].b
         /\ currentState # trace[2].b
         /\ trace[i + 1].a = trace[2].b

----------------------------------------------------------------------------
(* C15 *)

\* C15 as stated: every handler of a broadcast compares the state it was
\* handed, the result of that publish call's reducer, with the state that
\* reducer received, each through the handler's selector.
C15_ConsistentPair ==
    \A k \in DOMAIN trace :
        trace[k].ev = "compare" =>
            LET i == Entry(trace[k].call)
            IN  /\ trace[k].a = Select(trace[k].sel, trace[i + 1].b)
                /\ trace[k].b = Select(trace[k].sel, trace[i + 1].a)

----------------------------------------------------------------------------
(* C16, C17 *)

\* The broadcast of the last top-level call ran the handler of h.
Reached(h) == \E k \in DOMAIN trace : trace[k].ev = "compare" /\ trace[k].sub = h

\* The subscriptions registered when the last top-level call began whose
\* selector builds a new object on every call, by their comparator.
FreshSelecting(areEqual) ==
    {h \in Range(pre.subscribers) :
        closures[h].selector = "selObject" /\ closures[h].areEqual = areEqual}

\* C16: in a publish that contains no other container call, a subscription
\* whose selector builds { name } anew and whose comparator compares name
\* is not invoked when the reducer's result has the name the state had
\* (only other fields changed, or nothing), and is invoked exactly once,
\* with the selection of the new state, when the name changed.
C16_CustomEqualityDecides ==
    (Reduced /\ Flat) =>
        \A h \in FreshSelecting("eqByName") :
            Reached(h) =>
                IF trace[2].b.name = pre.currentState.name
                THEN Len(calls[h]) = pre.counts[h]
                ELSE /\ Len(calls[h]) = pre.counts[h] + 1
                     /\ Last(calls[h]) = ApplySelector("selObject", trace[2].b)

\* A publish that changed the address alone and did not invoke such a
\* subscription, which an earlier change of name had invoked.
C16_Witness ==
    /\ Reduced /\ Flat /\ thrown = NoError
    /\ trace[2].b.address # pre.currentState.address
    /\ \E h \in FreshSelecting("eqByName") :
         /\ Reached(h)
         /\ pre.counts[h] = 2
         /\ Len(calls[h]) = 2
         /\ calls[h][1].name # calls[h][2].name

\* C17: in a publish that contains no other container call, a subscription
\* whose selector builds { name } anew and which uses the default
\* comparator is invoked once, with the selection of the reducer's result,
\* whatever the reducer returned: another name, another address, or the
\* very state it was given.
C17_FreshSelectionAlwaysNotifies ==
    (Reduced /\ Flat) =>
        \A h \in FreshSelecting(Undefined) :
            Reached(h) =>
                /\ Len(calls[h]) = pre.counts[h] + 1
                /\ Last(calls[h]) = ApplySelector("selObject", trace[2].b)

\* A publish whose reducer returned the state it was given, and which
\* invoked such a subscription for the second time with the same name.
C17_Witness ==
    /\ Reduced /\ Flat /\ thrown = NoError
    /\ trace[2].fn = "same"
    /\ \E h \in FreshSelecting(Undefined) :
         /\ Len(calls[h]) = pre.counts[h] + 1
         /\ Len(calls[h]) = 3
         /\ calls[h][2].name = calls[h][3].name

----------------------------------------------------------------------------
(* C18 *)

\* C18: a top-level call on one cell invokes no subscriber that was
\* subscribed to the other cell, neither in its broadcast nor otherwise,
\* and leaves the other cell's currentState and previousState as they were.
C18_NoCrossTalk ==
    other.last # 0 =>
        LET idle == 3 - other.last
        IN  /\ \A h \in DOMAIN pre.counts :
                 Owner(h) = idle => Len(calls[h]) = pre.counts[h]
            /\ \A k \in DOMAIN trace :
                 trace[k].ev \in {"compare", "notify", "immediate"}
                    => Owner(trace[k].sub) = other.last
            /\ other.was = <<CellState(idle).currentState, CellState(idle).previousState>>

\* A publish on the second cell that invoked a subscriber of the second
\* cell, while the first cell holds a subscription that a publish of the
\* first cell had invoked.
C18_Witness ==
    /\ other.last = 2
    /\ IsTop("publish")
    /\ \E k \in DOMAIN trace : trace[k].ev = "notify"
    /\ \E h \in Range(subscribers) : Owner(h) = 1 /\ Len(calls[h]) >= 2

----------------------------------------------------------------------------
(* C19 *)

MinOf(S) == CHOOSE x \in S : \A y \in S : x <= y

\* The error the callbacks of subscription h throw when its handler runs
\* for a change of the state from old to new, or NoError.
Raises(h, old, new) ==
    LET c == closures[h]
        prev == Select(c.selector, old)
        curr == Select(c.selector, new)
        answer == IF c.areEqual = Undefined THEN StrictEquals(curr, prev)
                  ELSE ApplyComparator(c.areEqual, curr, prev)
    IN  IF c.selector = "selThrowOnB" /\ "b" \in {old.name, new.name}
        THEN "selector threw"
        ELSE IF c.areEqual = "eqThrowOnB" /\ curr.name = "b" THEN "areEqual threw"
        ELSE IF c.subscriber = "throwOnB" /\ curr.name = "b" /\ ~answer
        THEN "subscriber threw"
        ELSE NoError

\* C19: a publish that contains no other container call ends with the
\* error of the first subscription, in subscription order, whose selector,
\* comparator or subscriber throws for the change, as that callback threw
\* it, and normally when none throws; and when it ends with such an error
\* currentState is the reducer's result and previousState the state the
\* reducer was given.
C19_DispatchErrorsPropagate ==
    (Reduced /\ Flat) =>
        LET old == pre.currentState
            new == trace[2].b
            throwers == {i \in 1..Len(pre.subscribers) :
                            Raises(pre.subscribers[i], old, new) # NoError}
        IN  /\ thrown = IF throwers = {} THEN NoError
                        ELSE Raises(pre.subscribers[MinOf(throwers)], old, new)
            /\ thrown # NoError =>
                 /\ ~Last(trace).flag
                 /\ currentState = new
                 /\ previousState = old

\* A publish that ended with the error of a comparator after another
\* subscriber had been invoked, with the state changed.
C19_Witness ==
    /\ Reduced /\ Flat
    /\ thrown = "areEqual threw"
    /\ \E k \in DOMAIN trace : trace[k].ev = "notify"
    /\ currentState.name # pre.currentState.name
    /\ previousState = pre.currentState

----------------------------------------------------------------------------
(* C20 *)

\* The invocations the broadcasts of the last top-level call made.
Notified == SelectSeq(trace, LAMBDA e : e.ev = "notify")

\* The dispatches in which the comparator answered "equal".
Suppressed == {k \in DOMAIN trace : trace[k].ev = "compare" /\ trace[k].flag}

----------------------------------------------------------------------------
(* C21 *)

\* Two selected values are the same value: the same primitive, the same
\* object, or two objects a selector built with the same content.
SameValue(a, b) ==
    /\ a.kind = b.kind /\ a.name = b.name /\ a.address = b.address
    /\ a.kind = "state" => a.ref = b.ref

\* No callback of any subscription made so far ever throws.
NothingThrows ==
    \A h \in DOMAIN closures :
        /\ closures[h].subscriber # "throwOnB"
        /\ closures[h].selector # "selThrowOnB"
        /\ closures[h].areEqual # "eqThrowOnB"

\* C21 as stated, for cells none of whose callbacks throws: after a
\* top-level publish, subscribe or unsubscribe call has returned, every
\* registered subscription that uses the default comparator was last
\* invoked with selector(currentState), also when a subscriber published
\* during a broadcast.
C21_NoStaleValue ==
    (NothingThrows /\ thrown = NoError) =>
        \A h \in Range(subscribers) :
            closures[h].areEqual = Undefined =>
                /\ calls[h] # <<>>
                /\ SameValue(Last(calls[h]), Select(closures[h].selector, currentState))

----------------------------------------------------------------------------
(* C22 *)

\* The invocations of h made before the last top-level call began.
CountBefore(h) == IF h \in DOMAIN pre.counts THEN pre.counts[h] ELSE 0

\* C22 as stated, for cells none of whose callbacks throws: a subscriber
\* whose subscription uses the default comparator is never invoked with a
\* value identical (===) to the value of its invocation before, whichever
\* calls lie between the two, a publish made by another subscriber during
\* a broadcast included.
C22_NoRepeatedValue ==
    NothingThrows =>
        \A h \in DOMAIN closures :
            closures[h].areEqual = Undefined =>
                \A k \in (CountBefore(h) + 1)..Len(calls[h]) :
                    k > 1 => ~StrictEquals(calls[h][k - 1], calls[h][k])

----------------------------------------------------------------------------
(* C23 *)

\* The errors of a reducer call: the reducer's own, or that of calling a
\* value that is not a function.
ReducerErrors == {"reducer threw", "reducer is not a function"}

\* C23 as stated: a publish whose reducer throws, or whose argument is not
\* a function, ends with that error; no handler runs and no subscriber is
\* invoked; and currentState and previousState hold what they held when
\* the call was made.
C23_FailedReducerHasNoEffect ==
    (IsTop("publish") /\ ~Reduced) =>
        /\ thrown \in ReducerErrors
        /\ thrown = "reducer is not a function" <=> ~IsFunction(trace[1].fn)
        /\ Dispatches = {}
        /\ \A h \in DOMAIN pre.counts : Len(calls[h]) = pre.counts[h]
        /\ subscribers = pre.subscribers
        /\ currentState = pre.currentState
        /\ previousState = pre.previousState

----------------------------------------------------------------------------
(* C24 *)

\* No publish call was entered between positions i and r of the log.
NoPublishWithin(i, r) == \A j \in PublishCalls : ~(i < j /\ j < r)

\* C24: currentState and previousState are assigned by publish alone.  A
\* top-level subscribe or unsubscribe call in which no callback published
\* leaves both as they were, whether it returned or threw; so does every
\* subscribe call made from inside a callback; and the broadcast of a
\* publish in which no callback published leaves both as the two
\* assignments of that publish made them.
C24_OnlyPublishWritesState ==
    /\ ((IsTop("subscribe") \/ IsTop("unsubscribe")) /\ PublishCalls = {}) =>
          /\ currentState = pre.currentState
          /\ previousState = pre.previousState
    /\ \A i \in SubscribeCalls :
          LET r == ReturnOf(trace[i].call)
          IN  NoPublishWithin(i, r) =>
                /\ trace[r].a = trace[i].a
                /\ trace[r].b = trace[i].b
    /\ \A i \in PublishCalls :
          LET r == ReturnOf(trace[i].call)
          IN  (trace[i + 1].flag /\ NoPublishWithin(i, r)) =>
                /\ trace[r].a = trace[i + 1].b
                /\ trace[r].b = trace[i].a

\* A subscribe call that ended with the error its subscriber threw, on a
\* cell whose previousState differed from its currentState.
C24_Witness ==
    /\ IsTop("subscribe")
    /\ thrown = "subscriber threw"
    /\ pre.currentState # pre.previousState
    /\ currentState = pre.currentState
    /\ previousState = pre.previousState

----------------------------------------------------------------------------
(* C25 *)

\* The runs of the handler of h in the last top-level call that came to
\* the comparator's answer, and the invocations of its subscriber.
ComparesOf(h) ==
    Cardinality({k \in DOMAIN trace : trace[k].ev = "compare" /\ trace[k].sub = h})
NotifiesOf(h) ==
    Cardinality({k \in DOMAIN trace : trace[k].ev = "notify" /\ trace[k].sub = h})

\* C25 as stated: in every publish call that contains no other container
\* call, the handler of each subscription registered when it began runs
\* exactly once, and its subscriber is invoked at most once.
C25_Original ==
    (IsTop("publish") /\ Flat) =>
        \A h \in Range(pre.subscribers) :
            /\ ComparesOf(h) = 1
            /\ Len(calls[h]) <= pre.counts[h] + 1

\* C25 amended: a publish whose reducer throws or is not a function hands
\* nothing to pusu.publish.  A publish whose reducer returns hands the state
\* to it once: when the call contains no other container call, the handlers
\* of the subscriptions registered when it began run in subscription order,
\* none twice; each of them runs when no callback throws; a throw ends the
\* broadcast, the handlers before the throwing one having run once and those
\* after it not at all; and each subscriber is invoked at most once, by its
\* own handler.
C25_OnePublishOneRun ==
    (IsTop("publish") /\ Flat) =>
        LET old == pre.currentState
            throwers == IF ~Reduced THEN {}
                        ELSE {i \in 1..Len(pre.subscribers) :
                                Raises(pre.subscribers[i], old, trace[2].b) # NoError}
        IN  /\ ~Reduced => Dispatches = {}
            /\ \A h \in DOMAIN closures : h \notin Range(pre.subscribers) => ComparesOf(h) = 0
            /\ \A i \in 1..Len(pre.subscribers) :
                 LET h == pre.subscribers[i]
                 IN  /\ ComparesOf(h) <= 1
                     /\ NotifiesOf(h) <= ComparesOf(h)
                     /\ Len(calls[h]) = pre.counts[h] + NotifiesOf(h)
                     /\ (Reduced /\ \A t \in throwers : i < t) => ComparesOf(h) = 1
                     /\ (~Reduced \/ \E t \in throwers : t < i) => ComparesOf(h) = 0

\* A publish whose first subscriber threw when invoked, so that the handler
\* of the second subscription did not run.
C25_Witness ==
    /\ Reduced /\ Flat
    /\ thrown = "subscriber threw"
    /\ Len(pre.subscribers) = 2
    /\ ComparesOf(pre.subscribers[1]) = 1
    /\ ComparesOf(pre.subscribers[2]) = 0
    /\ Len(calls[pre.subscribers[2]]) = pre.counts[pre.subscribers[2]]

----------------------------------------------------------------------------
(* C26 *)

\* Subscriptions g and h were made with the same three arguments.
SameArguments(g, h) ==
    /\ closures[g].subscriber = closures[h].subscriber
    /\ closures[g].selector = closures[h].selector
    /\ closures[g].areEqual = closures[h].areEqual

\* C26: every subscribe call that passes the checks registers one handler
\* of its own, also when its arguments are those of an earlier call; a call
\* of an unsubscribe function removes the handler of the subscribe call that
\* returned it and no other, the rest keeping their order; and a publish
\* that contains no other container call and ends normally runs the handler
\* of every subscription still registered, once.
C26_IndependentRegistrations ==
    /\ \A i, j \in DOMAIN subscribers : subscribers[i] = subscribers[j] => i = j
    /\ (IsTop("subscribe") /\ Flat /\ thrown \notin ValidationErrors) =>
          /\ Len(closures) = Len(pre.counts) + 1
          /\ subscribers = Append(pre.subscribers, Len(closures))
    /\ (IsTop("unsubscribe") /\ Flat) =>
          subscribers = SelectSeq(pre.subscribers, LAMBDA x : x # trace[1].sub)
    /\ (Reduced /\ Flat /\ thrown = NoError) =>
          \A h \in DOMAIN closures :
              ComparesOf(h) = IF h \in Range(pre.subscribers) THEN 1 ELSE 0

\* A publish that invoked a subscriber through one registration after the
\* unsubscribe function of another registration, made with the same
\* arguments, had been called.
C26_Witness ==
    /\ Reduced /\ Flat /\ thrown = NoError
    /\ \E g \in Range(pre.subscribers), h \in DOMAIN closures :
         /\ h \notin Range(pre.subscribers)
         /\ closures[h].handle
         /\ SameArguments(g, h)
         /\ NotifiesOf(g) = 1
         /\ Len(calls[h]) = pre.counts[h]

----------------------------------------------------------------------------
(* C27 *)

\* The subscriptions whose subscribe call passed the checks and ended with
\* an error of the first invocation: their caller holds no unsubscribe
\* function.
Handleless == {h \in DOMAIN closures : ~closures[h].handle}

\* C27: a subscribe call whose subscriber throws when first invoked ends
\* with that error, having registered its handler and invoked the
\* subscriber once with the selected current state, and returns no
\* unsubscribe function; such a subscription stays registered whatever is
\* called later; and every later publish that contains no other container
\* call and whose reducer returns runs its handler, unless a callback of a
\* subscription before it in subscription order has thrown.
C27_RegisteredBeforeFirstInvocation ==
    /\ (IsTop("subscribe") /\ Flat /\ thrown = "subscriber threw") =>
          LET h == Len(closures)
          IN  /\ ~Last(trace).flag
              /\ Len(closures) = Len(pre.counts) + 1
              /\ subscribers = Append(pre.subscribers, h)
              /\ h \in Handleless
              /\ calls[h] = <<Select(closures[h].selector, currentState)>>
    /\ Handleless \subseteq Range(subscribers)
    /\ (Reduced /\ Flat) =>
          \A i \in 1..Len(pre.subscribers) :
              LET h == pre.subscribers[i]
                  quiet(j) == Raises(pre.subscribers[j], pre.currentState, trace[2].b)
              IN  (/\ h \in Handleless
                   /\ \A j \in 1..(i - 1) : quiet(j) = NoError
                   /\ quiet(i) \in {NoError, "subscriber threw"})
                  => ComparesOf(h) = 1

\* A publish that invoked a subscriber whose subscribe call had ended
\* with the error the subscriber threw.
C27_Witness ==
    /\ Reduced /\ Flat /\ thrown = NoError
    /\ \E h \in Range(pre.subscribers) :
         /\ h \in Handleless
         /\ closures[h].subscriber = "throwOnB"
         /\ NotifiesOf(h) = 1
         /\ Len(calls[h]) >= 2

====
